---- MODULE Spec2Model ----
(***************************************************************************)
(* Model of aligned_nearest_neighbor: the gap-aware percent identity       *)
(* (pct_identity), the per-query scan (compute_nearest_neighbors_single),  *)
(* the subset filter (filter_records), the loader's validation             *)
(* (parse_all_records), the parallel map/collect                           *)
(* (compute_nearest_neighbors) and the full run (main, then                *)
(* compute_store_nearest_neighbors).                                       *)
(*                                                                         *)
(* A Record is [id |-> string, seq |-> sequence of symbols].               *)
(* An f32 score is a pair <<n, d>>: the quotient n/d in lowest terms when   *)
(* d > 0, and NaN == <<0, 0>> for 0.0/0.0.  For the counts the model        *)
(* reaches (far below 2^12) two distinct quotients round to two distinct    *)
(* f32 values and rounding is monotone, so f32 equality and f32 ordering    *)
(* of the quotients are equality and ordering of the fractions.             *)
(***************************************************************************)
EXTENDS Integers, Sequences, FiniteSets, TLC

\* ------------------------------------------------------------------ bounds
MaxLen == 3
MaxCands == 2
MaxIdList == 4
MaxRecords == 3
MaxWorkers == 2
BufCap == 1

\* ------------------------------------------------------------- vocabulary
GAP == "-"
Symbols == {"A", "C", GAP}
Ids == {"a", "b"}

RECURSIVE SeqsUpTo(_, _)
SeqsUpTo(S, n) ==
    IF n = 0 THEN {<<>>}
    ELSE LET shorter == SeqsUpTo(S, n - 1)
         IN  shorter \cup {Append(s, e) : s \in {t \in shorter : Len(t) = n - 1}, e \in S}

AllSeqs == SeqsUpTo(Symbols, MaxLen)
AllRecords == [id : Ids, seq : AllSeqs]

NoRecord == [id |-> "", seq |-> <<>>]

\* ------------------------------------------------------------- f32 scores
NaN == <<0, 0>>
Zero == <<0, 1>>

RECURSIVE Gcd(_, _)
Gcd(a, b) == IF b = 0 THEN a ELSE Gcd(b, a % b)

\* (numer as f32) / (denom as f32)
F32Div(n, d) ==
    IF d = 0 THEN (IF n = 0 THEN NaN ELSE <<1, 0>>)
    ELSE LET g == Gcd(n, d) IN <<n \div g, d \div g>>

IsNaN(a) == a = NaN

\* a >= b on f32: false as soon as one side is NaN
F32Ge(a, b) ==
    /\ ~IsNaN(a)
    /\ ~IsNaN(b)
    /\ a[1] * b[2] >= b[1] * a[2]

\* ---------------------------------------------------------- pct_identity
\* x.seq().iter().zip(y.seq().iter()): pairs up to the shorter length
Zip(xs, ys) ==
    LET n == IF Len(xs) <= Len(ys) THEN Len(xs) ELSE Len(ys)
    IN  [i \in 1..n |-> <<xs[i], ys[i]>>]

NotBothGap(p) == ~(p[1] = GAP /\ p[2] = GAP)
SameSymbol(p) == p[1] = p[2]

Numer(x, y) == Len(SelectSeq(SelectSeq(Zip(x.seq, y.seq), NotBothGap), SameSymbol))

DenomNoGapFilter(x, y) == Len(Zip(x.seq, y.seq))
Denom(x, y) == Len(SelectSeq(Zip(x.seq, y.seq), NotBothGap))

Ok(v) == [tag |-> "Ok", val |-> v, id1 |-> "", id2 |-> ""]
HammingDistanceError(i1, i2) == [tag |-> "HammingDistanceError", val |-> NaN, id1 |-> i1, id2 |-> i2]
NotCalled == [tag |-> "NotCalled", val |-> NaN, id1 |-> "", id2 |-> ""]

pct_identity_no_len_check(x, y) == Ok(F32Div(Numer(x, y), Denom(x, y)))
pct_identity(x, y) ==
    IF Len(x.seq) # Len(y.seq)
    THEN HammingDistanceError(x.id, y.id)
    ELSE Ok(F32Div(Numer(x, y), Denom(x, y)))

\* ------------------------------------- compute_nearest_neighbors_single
\* best_neighbor is a position in the candidate list (a reference to that
\* element); 0 is None.
ScanInit == [best_idty |-> Zero, best_neighbor |-> 0, status |-> "Scanning"]

\* the loop body, for candidate number k
ScanOther(st, q, coll, k) ==
    LET r == pct_identity(q, coll[k])
    IN  IF r.tag # "Ok"
        THEN [st EXCEPT !.status = "PanicHamming"]
        ELSE IF F32Ge(r.val, st.best_idty)
             THEN [st EXCEPT !.best_idty = r.val, !.best_neighbor = k]
             ELSE st

\* (best_neighbor.unwrap(), best_idty)
ScanReturn(st) ==
    IF st.best_neighbor = 0
    THEN [st EXCEPT !.status = "PanicUnwrap"]
    ELSE [st EXCEPT !.status = "Returned"]

RECURSIVE ScanFrom(_, _, _, _)
ScanFrom(st, q, coll, k) ==
    IF st.status # "Scanning" THEN st
    ELSE IF k > Len(coll) THEN ScanReturn(st)
    ELSE ScanFrom(ScanOther(st, q, coll, k), q, coll, k + 1)

compute_nearest_neighbors_single(q, coll) == ScanFrom(ScanInit, q, coll, 1)

\* --------------------------------------------------------- filter_records
\* Option<Vec<String>>
NoneIds == [some |-> FALSE, ids |-> <<>>]
SomeIds(l) == [some |-> TRUE, ids |-> l]

\* HashSet::from_iter(id_list)
HashSetFromIter(id_list) == {id_list[i] : i \in DOMAIN id_list}

\* records.iter().filter(|record| id_subset.contains(record.id())).collect()
\* A view is a sequence of positions in records (references to its elements).
RECURSIVE FilterFrom(_, _, _)
FilterFrom(recs, id_subset, k) ==
    IF k > Len(recs) THEN <<>>
    ELSE (IF recs[k].id \in id_subset THEN <<k>> ELSE <<>>) \o FilterFrom(recs, id_subset, k + 1)

\* the mutant walks the identifier list instead of the collection
RECURSIVE FilterByList(_, _, _)
FilterByList(recs, id_list, j) ==
    IF j > Len(id_list) THEN <<>>
    ELSE FilterFrom(recs, {id_list[j]}, 1) \o FilterByList(recs, id_list, j + 1)

filter_records_in_list_order(recs, id_arr) ==
    IF ~id_arr.some
    THEN [i \in 1..Len(recs) |-> i]
    ELSE FilterByList(recs, id_arr.ids, 1)
filter_records(recs, id_arr) ==
    IF ~id_arr.some
    THEN [i \in 1..Len(recs) |-> i]
    ELSE FilterFrom(recs, HashSetFromIter(id_arr.ids), 1)

\* ------------------------------------------------------ parse_all_records
\* What the FASTA reader yields: an I/O failure, or the records of the file.
ParseOk(recs) == [tag |-> "Ok", recs |-> recs, first_len |-> 0, got_len |-> 0, record_idx |-> 0]
ParseErr(kind, fl, gl, idx) == [tag |-> kind, recs |-> <<>>, first_len |-> fl, got_len |-> gl, record_idx |-> idx]
NotParsed == ParseErr("NotParsed", 0, 0, 0)

\* for (record_idx, record) in all_fasta_records.iter().enumerate()
RECURSIVE CheckLengthsFrom(_, _, _)
CheckLengthsFrom(recs, first_len, k) ==
    IF k > Len(recs) THEN ParseOk(recs)
    ELSE IF Len(recs[k].seq) # first_len
         THEN ParseErr("LengthMismatch", first_len, Len(recs[k].seq), k - 1)
         ELSE CheckLengthsFrom(recs, first_len, k + 1)

parse_all_records_no_length_check(f) ==
    IF ~f.io_ok THEN ParseErr("IOError", 0, 0, 0)
    ELSE IF Len(f.recs) = 0 THEN ParseErr("EmptyFile", 0, 0, 0)
    ELSE ParseOk(f.recs)
parse_all_records(f) ==
    IF ~f.io_ok THEN ParseErr("IOError", 0, 0, 0)
    ELSE IF Len(f.recs) = 0 THEN ParseErr("EmptyFile", 0, 0, 0)
    ELSE CheckLengthsFrom(f.recs, Len(f.recs[1].seq), 1)

\* ---------------------------------------------- compute_nearest_neighbors
\* One slot per query; NoResult until that query's task has delivered.
NoResult == <<0, NaN>>
NotReturned == <<NoResult>>

\* the mutant collects first-finished-first-returned
CollectInCompletionOrder(sl, done, i, r) == [sl EXCEPT ![Len(done) + 1] = r]
\* par_iter().map(..).collect(): the result of item i lands at position i
CollectInto(sl, done, i, r) == [sl EXCEPT ![i] = r]

\* ------------------------------------------------------------------ state
VARIABLES
    x, y, idty,           \* pct_identity: its two arguments and its result
    query, collection,    \* compute_nearest_neighbors_single: its arguments,
    cursor, scan,         \*   the loop position and the loop's locals
    id_arr, filtered,     \* filter_records: the identifier argument and the view returned
    records,              \* the collection of Records (filter_records' argument, main's records)
    fasta,                \* main: what reading the input file yields
    parse_ret,            \*   the result of parse_all_records
    num_workers,          \*   args.num_workers
    query_ids, db_ids,    \*   the optional identifier lists
    query_records,        \* compute_store_nearest_neighbors: the two views,
    db_records,
    task, slots,          \* compute_nearest_neighbors: each query's task, the collected items,
    finished,             \*   the queries in the order their tasks completed (the progress bar)
    results,              \*   the list returned
    out_before, out_file, \* the destination before the run and now
    writer, next_line,    \* the BufWriter's buffer and the write loop's position
    pc                    \* where the run is

metricVars == <<x, y, idty>>
searchVars == <<query, collection, cursor, scan>>
filterVars == <<id_arr, filtered>>
runVars == <<fasta, parse_ret, num_workers, query_ids, db_ids, query_records, db_records,
             task, slots, finished, results, out_before, out_file, writer, next_line, pc>>
vars == <<x, y, idty, query, collection, cursor, scan, id_arr, filtered, records,
          fasta, parse_ret, num_workers, query_ids, db_ids, query_records, db_records,
          task, slots, finished, results, out_before, out_file, writer, next_line, pc>>

NotCalledView == <<0>>

MetricIdle == x = NoRecord /\ y = NoRecord /\ idty = NotCalled
SearchIdle == query = NoRecord /\ collection = <<>> /\ cursor = 0 /\ scan = ScanInit
FilterIdle == id_arr = NoneIds /\ filtered = NotCalledView

NoFile == [exists |-> FALSE, lines |-> <<>>]
NoFasta == [io_ok |-> FALSE, recs |-> <<>>]
RunIdle ==
    /\ fasta = NoFasta /\ parse_ret = NotParsed /\ num_workers = 1
    /\ query_ids = NoneIds /\ db_ids = NoneIds
    /\ query_records = <<>> /\ db_records = <<>>
    /\ task = <<>> /\ slots = <<>> /\ finished = <<>> /\ results = NotReturned
    /\ out_before = NoFile /\ out_file = NoFile /\ writer = <<>> /\ next_line = 0
    /\ pc = "idle"

\* ------------------------------------------ SpecMetric: pct_identity alone
MetricInit ==
    /\ x \in AllRecords
    /\ y \in AllRecords
    /\ idty = NotCalled
    /\ SearchIdle /\ FilterIdle /\ RunIdle /\ records = <<>>

CallPctIdentity ==
    /\ idty = NotCalled
    /\ idty' = pct_identity(x, y)
    /\ UNCHANGED <<x, y, searchVars, filterVars, records, runVars>>

MetricNext == CallPctIdentity

SpecMetric == MetricInit /\ [][MetricNext]_vars

\* ------------------- SpecSearch: compute_nearest_neighbors_single alone
SearchRecords == [id : Ids, seq : SeqsUpTo({"A", GAP}, 2)]

SearchInit ==
    /\ query \in SearchRecords
    /\ collection \in SeqsUpTo(SearchRecords, MaxCands)
    /\ cursor = 1
    /\ scan = ScanInit
    /\ MetricIdle /\ FilterIdle /\ RunIdle /\ records = <<>>

\* one iteration of "for other in collection.iter()"
SearchScanOther ==
    /\ scan.status = "Scanning"
    /\ cursor <= Len(collection)
    /\ scan' = ScanOther(scan, query, collection, cursor)
    /\ cursor' = cursor + 1
    /\ UNCHANGED <<query, collection, metricVars, filterVars, records, runVars>>

\* the loop is over: (best_neighbor.unwrap(), best_idty)
SearchReturn ==
    /\ scan.status = "Scanning"
    /\ cursor > Len(collection)
    /\ scan' = ScanReturn(scan)
    /\ UNCHANGED <<query, collection, cursor, metricVars, filterVars, records, runVars>>

SearchNext == SearchScanOther \/ SearchReturn

SpecSearch == SearchInit /\ [][SearchNext]_vars

\* ------------------------------------ SpecFilter: filter_records alone
FilterRecords == [id : Ids, seq : {<<"A">>}]
IdNames == Ids \cup {"z"}

FilterInit ==
    /\ records \in SeqsUpTo(FilterRecords, MaxRecords)
    /\ id_arr \in {NoneIds} \cup {SomeIds(l) : l \in SeqsUpTo(IdNames, MaxIdList)}
    /\ filtered = NotCalledView
    /\ MetricIdle /\ SearchIdle /\ RunIdle

CallFilterRecords ==
    /\ filtered = NotCalledView
    /\ filtered' = filter_records(records, id_arr)
    /\ UNCHANGED <<records, id_arr, metricVars, searchVars, runVars>>

FilterNext == CallFilterRecords

SpecFilter == FilterInit /\ [][FilterNext]_vars

\* --------------- Spec: main, then compute_store_nearest_neighbors
RunRecords == [id : Ids, seq : {<<>>, <<GAP>>, <<"A">>}]
RunIdArgs == {NoneIds, SomeIds(<<"a">>), SomeIds(<<"z">>)}
OldFile == [exists |-> TRUE, lines |-> <<"old">>]

Init ==
    /\ fasta \in {NoFasta} \cup {[io_ok |-> TRUE, recs |-> r] : r \in SeqsUpTo(RunRecords, MaxRecords)}
    /\ num_workers \in 1..MaxWorkers
    /\ query_ids \in RunIdArgs
    /\ db_ids \in RunIdArgs
    /\ out_before \in {NoFile, OldFile}
    /\ out_file = out_before
    /\ records = <<>> /\ parse_ret = NotParsed
    /\ query_records = <<>> /\ db_records = <<>>
    /\ task = <<>> /\ slots = <<>> /\ finished = <<>> /\ results = NotReturned
    /\ writer = <<>> /\ next_line = 0
    /\ pc = "main"
    /\ MetricIdle /\ SearchIdle /\ FilterIdle

\* main: parse_all_records(args.input_fasta).unwrap_or_else(.. exit(1))
MainParse ==
    /\ pc = "main"
    /\ parse_ret' = parse_all_records(fasta)
    /\ records' = parse_ret'.recs
    /\ pc' = IF parse_ret'.tag = "Ok" THEN "check_count" ELSE "exit1"
    /\ UNCHANGED <<metricVars, searchVars, filterVars, fasta, num_workers, query_ids, db_ids,
                   query_records, db_records, task, slots, finished, results,
                   out_before, out_file, writer, next_line>>

\* main: if records.len() < 2 { exit(1) }
MainCheckCount ==
    /\ pc = "check_count"
    /\ pc' = IF Len(records) < 2 THEN "exit1" ELSE "filter"
    /\ UNCHANGED <<metricVars, searchVars, filterVars, records, fasta, parse_ret, num_workers,
                   query_ids, db_ids, query_records, db_records, task, slots, finished,
                   results, out_before, out_file, writer, next_line>>

\* compute_store_nearest_neighbors: the two filter_records calls, and
\* compute_nearest_neighbors up to the parallel iterator
StoreFilter ==
    /\ pc = "filter"
    /\ query_records' = filter_records(records, query_ids)
    /\ db_records' = filter_records(records, db_ids)
    /\ task' = [i \in 1..Len(query_records') |-> "pending"]
    /\ slots' = [i \in 1..Len(query_records') |-> NoResult]
    /\ pc' = "search"
    /\ UNCHANGED <<metricVars, searchVars, filterVars, records, fasta, parse_ret, num_workers,
                   query_ids, db_ids, finished, results, out_before, out_file, writer, next_line>>

Running == {i \in 1..Len(task) : task[i] = "running"}
DbView == [k \in 1..Len(db_records) |-> records[db_records[k]]]

\* a worker of the pool takes up the closure of query i
TaskStart(i) ==
    /\ pc = "search"
    /\ task[i] = "pending"
    /\ Cardinality(Running) < num_workers
    /\ task' = [task EXCEPT ![i] = "running"]
    /\ UNCHANGED <<metricVars, searchVars, filterVars, records, fasta, parse_ret, num_workers,
                   query_ids, db_ids, query_records, db_records, slots, finished, results,
                   out_before, out_file, writer, next_line, pc>>

\* compute_nearest_neighbors_single(query_record, data_ref) ends: its result
\* is collected, or its panic is caught by the pool
TaskFinish(i) ==
    /\ pc = "search"
    /\ task[i] = "running"
    /\ LET r == compute_nearest_neighbors_single(records[query_records[i]], DbView)
       IN  IF r.status = "Returned"
           THEN /\ task' = [task EXCEPT ![i] = "done"]
                /\ slots' = CollectInto(slots, finished, i, <<db_records[r.best_neighbor], r.best_idty>>)
                /\ finished' = Append(finished, i)
           ELSE /\ task' = [task EXCEPT ![i] = r.status]
                /\ UNCHANGED <<slots, finished>>
    /\ UNCHANGED <<metricVars, searchVars, filterVars, records, fasta, parse_ret, num_workers,
                   query_ids, db_ids, query_records, db_records, results,
                   out_before, out_file, writer, next_line, pc>>

Panicked == {i \in 1..Len(task) : task[i] \in {"PanicHamming", "PanicUnwrap"}}

\* collect() has every item: Ok(results)
Join ==
    /\ pc = "search"
    /\ \A i \in 1..Len(task) : task[i] = "done"
    /\ results' = slots
    /\ pc' = "create"
    /\ UNCHANGED <<metricVars, searchVars, filterVars, records, fasta, parse_ret, num_workers,
                   query_ids, db_ids, query_records, db_records, task, slots, finished,
                   out_before, out_file, writer, next_line>>

\* a task panicked: the pool resumes the panic in the caller once no task
\* runs any more (tasks not yet started may be dropped)
JoinPanic ==
    /\ pc = "search"
    /\ Panicked # {}
    /\ Running = {}
    /\ pc' = "panic"
    /\ UNCHANGED <<metricVars, searchVars, filterVars, records, fasta, parse_ret, num_workers,
                   query_ids, db_ids, query_records, db_records, task, slots, finished, results,
                   out_before, out_file, writer, next_line>>

\* File::create(out_path)?, BufWriter::new(file), assert_eq!(results.len(), ..)
StoreCreate ==
    /\ pc = "create"
    /\ \/ /\ out_file' = [exists |-> TRUE, lines |-> <<>>]
          /\ pc' = IF Len(results) = Len(query_records) THEN "write" ELSE "panic"
       \/ /\ pc' = "exit1"
          /\ UNCHANGED out_file
    /\ writer' = <<>>
    /\ next_line' = 1
    /\ UNCHANGED <<metricVars, searchVars, filterVars, records, fasta, parse_ret, num_workers,
                   query_ids, db_ids, query_records, db_records, task, slots, finished, results,
                   out_before>>

Prefix(s, k) == [i \in 1..k |-> s[i]]
Line(i) == <<records[query_records[i]].id, records[results[i][1]].id, results[i][2]>>

\* writeln!(writer, ..)?: the line goes to the buffer; a full buffer is
\* written to the file first, and a failure of that write ends the run with
\* Err (dropping the writer, which writes what it still can)
StoreWriteLine ==
    /\ pc = "write"
    /\ next_line <= Len(query_records)
    /\ \/ /\ Len(writer) + 1 <= BufCap
          /\ writer' = Append(writer, Line(next_line))
          /\ next_line' = next_line + 1
          /\ UNCHANGED <<out_file, pc>>
       \/ /\ Len(writer) + 1 > BufCap
          /\ out_file' = [out_file EXCEPT !.lines = @ \o writer]
          /\ writer' = <<Line(next_line)>>
          /\ next_line' = next_line + 1
          /\ UNCHANGED pc
       \/ /\ Len(writer) + 1 > BufCap
          /\ \E k \in 0..Len(writer) :
                out_file' = [out_file EXCEPT !.lines = @ \o Prefix(writer, k)]
          /\ writer' = <<>>
          /\ pc' = "exit1"
          /\ UNCHANGED next_line
    /\ UNCHANGED <<metricVars, searchVars, filterVars, records, fasta, parse_ret, num_workers,
                   query_ids, db_ids, query_records, db_records, task, slots, finished, results,
                   out_before>>

\* Ok(()): the writer is dropped, which writes the buffer and ignores a failure
StoreReturnOk ==
    /\ pc = "write"
    /\ next_line > Len(query_records)
    /\ \E k \in 0..Len(writer) :
          out_file' = [out_file EXCEPT !.lines = @ \o Prefix(writer, k)]
    /\ writer' = <<>>
    /\ pc' = "exit0"
    /\ UNCHANGED <<metricVars, searchVars, filterVars, records, fasta, parse_ret, num_workers,
                   query_ids, db_ids, query_records, db_records, task, slots, finished, results,
                   out_before, next_line>>

Next ==
    \/ MainParse
    \/ MainCheckCount
    \/ StoreFilter
    \/ \E i \in 1..Len(task) : TaskStart(i)
    \/ \E i \in 1..Len(task) : TaskFinish(i)
    \/ Join
    \/ JoinPanic
    \/ StoreCreate
    \/ StoreWriteLine
    \/ StoreReturnOk

Spec == Init /\ [][Next]_vars

\* Positions of the alignment that are not a gap on both sides, and those
\* among them where the two symbols agree (stated on positions, not on the
\* iterator pipeline).
CountedPositions(a, b) == {i \in 1..Len(a.seq) : ~(a.seq[i] = GAP /\ b.seq[i] = GAP)}
MatchingPositions(a, b) == {i \in CountedPositions(a, b) : a.seq[i] = b.seq[i]}
OneSidedGaps(a, b) == {i \in 1..Len(a.seq) : (a.seq[i] = GAP) # (b.seq[i] = GAP)}

\* C2: for equal-length x and y, pct_identity(x, y) is numerator/denominator,
\* the denominator counting the positions that are not a gap on both sides
\* and the numerator those of them where the symbols are equal; a double
\* gap counts in neither, a one-sided gap in the denominator only (the f32
\* quotient of 0 by 0 is NaN).
C2_PctIdentityIsRatio ==
    (idty # NotCalled /\ Len(x.seq) = Len(y.seq)) =>
        LET n == Cardinality(MatchingPositions(x, y))
            d == Cardinality(CountedPositions(x, y))
        IN  /\ idty.tag = "Ok"
            /\ d > 0 => (idty.val[2] > 0 /\ idty.val[1] * d = n * idty.val[2])
            /\ d = 0 => idty.val = NaN
            /\ OneSidedGaps(x, y) \subseteq (CountedPositions(x, y) \ MatchingPositions(x, y))

C2_Witness ==
    /\ idty # NotCalled
    /\ Len(x.seq) = Len(y.seq)
    /\ OneSidedGaps(x, y) # {}
    /\ MatchingPositions(x, y) # {}
    /\ Cardinality(CountedPositions(x, y)) < Len(x.seq)

\* C4: for x and y of different lengths pct_identity returns the
\* length-mismatch error carrying x's identifier then y's, never a score.
C4_LengthMismatchError ==
    (idty # NotCalled /\ Len(x.seq) # Len(y.seq)) =>
        /\ idty.tag = "HammingDistanceError"
        /\ idty.id1 = x.id
        /\ idty.id2 = y.id

C4_Witness ==
    /\ idty # NotCalled
    /\ Len(x.seq) # Len(y.seq)
    /\ x.id # y.id

\* C5: for equal-length x and y the outcome of pct_identity is a defined
\* error or a value in [0,1] (numerator <= denominator, denominator > 0),
\* also when every position is a gap on both sides.
C5_DefinedOutcome ==
    (idty # NotCalled /\ Len(x.seq) = Len(y.seq)) =>
        \/ idty.tag = "HammingDistanceError"
        \/ /\ idty.tag = "Ok"
           /\ idty.val[2] > 0
           /\ idty.val[1] <= idty.val[2]

\* ------------------------------------------------------ search claims
Score(j) == pct_identity(query, collection[j]).val
SameLengths == \A j \in 1..Len(collection) : Len(collection[j].seq) = Len(query.seq)
SearchEnded == cursor > 0 /\ scan.status # "Scanning"

\* The returned candidate is the last one of maximal score, with that score.
IsLastMaximal(k) ==
    /\ k \in 1..Len(collection)
    /\ scan.best_idty = Score(k)
    /\ \A j \in 1..Len(collection) : ~IsNaN(Score(j)) => F32Ge(Score(k), Score(j))
    /\ \A j \in (k + 1)..Len(collection) : Score(j) # Score(k)

\* C3: for a query and a non-empty candidate list (of the query's length)
\* the search scans every candidate, excluding none, and returns the
\* candidate of maximal percent identity with that score, the latest in
\* candidate order among those that share the maximum.
C3_ReturnsLastMaximal ==
    (SearchEnded /\ collection # <<>> /\ SameLengths) =>
        /\ scan.status = "Returned"
        /\ cursor = Len(collection) + 1
        /\ IsLastMaximal(scan.best_neighbor)

\* What the scan does do: whenever it returns, it has scanned every
\* candidate and returns the last maximal one among the defined scores.
ReturnedIsLastMaximal ==
    (SearchEnded /\ scan.status = "Returned") =>
        /\ cursor = Len(collection) + 1
        /\ IsLastMaximal(scan.best_neighbor)

\* C10: for a non-empty candidate list whose sequences all have the query's
\* length the search returns one of the candidates; best_neighbor.unwrap()
\* aborts only on an empty candidate list, whatever the gap content.
C10_ReturnsACandidate ==
    /\ (SearchEnded /\ collection # <<>> /\ SameLengths) =>
            (scan.status = "Returned" /\ scan.best_neighbor \in 1..Len(collection))
    /\ (SearchEnded /\ scan.status = "PanicUnwrap") => collection = <<>>

\* ------------------------------------------------------- filter claims
IsStrictlyIncreasing(v) == \A i, j \in 1..Len(v) : i < j => v[i] < v[j]

\* C8: with no identifier list filter_records returns every record in the
\* collection's order; with a list it returns exactly the records whose id
\* is in the list, each once, in the collection's order; absent and
\* repeated identifiers change nothing.
C8_FilterRecords ==
    (filtered # NotCalledView) =>
        /\ IsStrictlyIncreasing(filtered)
        /\ \A i \in 1..Len(filtered) : filtered[i] \in 1..Len(records)
        /\ ~id_arr.some => Len(filtered) = Len(records)
        /\ id_arr.some =>
              {filtered[i] : i \in 1..Len(filtered)} =
              {k \in 1..Len(records) : \E j \in 1..Len(id_arr.ids) : id_arr.ids[j] = records[k].id}

C8_Witness ==
    /\ filtered # NotCalledView
    /\ id_arr.some
    /\ Len(filtered) >= 2
    /\ \E i, j \in 1..Len(id_arr.ids) : i < j /\ id_arr.ids[i] = id_arr.ids[j]
                                          /\ \E k \in 1..Len(records) : records[k].id = id_arr.ids[i]
    /\ \E j \in 1..Len(id_arr.ids) : \A k \in 1..Len(records) : records[k].id # id_arr.ids[j]
    /\ \E i, j \in 1..Len(id_arr.ids) : i < j /\ \E k, m \in 1..Len(records) :
            m < k /\ records[k].id = id_arr.ids[i] /\ records[m].id = id_arr.ids[j]

\* ---------------------------------------------------------- run claims
SearchOf(i) == compute_nearest_neighbors_single(records[query_records[i]], DbView)
Queries == 1..Len(query_records)

\* C1: compute_nearest_neighbors returns one result per query, result i
\* being the search result of query i against the whole database view,
\* whatever the worker count and the order in which the tasks ran and
\* completed; it ends in a panic exactly when some query's search aborts.
C1_ResultsIndexAligned ==
    /\ (pc = "create" /\ results # NotReturned) =>
          /\ Len(results) = Len(query_records)
          /\ \A i \in Queries :
                /\ SearchOf(i).status = "Returned"
                /\ results[i] = <<db_records[SearchOf(i).best_neighbor], SearchOf(i).best_idty>>
    /\ (pc = "panic" /\ results = NotReturned) =>
          \E i \in Queries : SearchOf(i).status # "Returned"

C1_Witness ==
    /\ pc = "create"
    /\ results # NotReturned
    /\ num_workers = 2
    /\ Len(results) >= 2
    /\ results[1] # results[2]
    /\ Len(db_records) >= 2
    /\ finished[1] > finished[2]

\* C6: in a full run on a loaded collection of at least two records, for
\* every optional query and database identifier list, no search runs on an
\* empty candidate collection (the unwrap on an empty candidate set is
\* unreachable).
C6_CandidatesNeverEmpty ==
    \A i \in 1..Len(task) :
        (task[i] # "pending" /\ Len(records) >= 2) => db_records # <<>>

\* C7: the output file is created (a pre-existing one truncated) only after
\* the searches of all queries have completed, and a run that fails (an
\* abort in a search, an error while writing) leaves no partial output at
\* the destination.
C7_NoPartialOutput ==
    /\ out_file # out_before =>
          (results # NotReturned /\ \A i \in 1..Len(task) : task[i] = "done")
    /\ pc \in {"exit1", "panic"} => out_file = out_before

\* The half of C7 the code does keep: nothing touches the destination
\* before every search has completed.
CreatedOnlyAfterSearches ==
    out_file # out_before =>
        (results # NotReturned /\ \A i \in 1..Len(task) : task[i] = "done")

Mismatching(recs) == {k \in 1..Len(recs) : Len(recs[k].seq) # Len(recs[1].seq)}

\* C9: parse_all_records returns a collection only if it is non-empty and
\* every record has the first record's sequence length; an empty file fails
\* with EmptyFile and a file of unequal lengths with LengthMismatch naming
\* the first offending record's index, the expected and the actual length;
\* hence no comparison of a run on a loaded collection fails with a length
\* mismatch.
C9_LoadedLengthsUniform ==
    /\ parse_ret # NotParsed =>
          /\ parse_ret.tag = "Ok" =>
                /\ fasta.io_ok
                /\ records = fasta.recs
                /\ records # <<>>
                /\ Mismatching(records) = {}
          /\ (fasta.io_ok /\ fasta.recs = <<>>) => parse_ret.tag = "EmptyFile"
          /\ (fasta.io_ok /\ Mismatching(fasta.recs) # {}) =>
                /\ parse_ret.tag = "LengthMismatch"
                /\ parse_ret.record_idx + 1 \in Mismatching(fasta.recs)
                /\ \A k \in Mismatching(fasta.recs) : parse_ret.record_idx + 1 <= k
                /\ parse_ret.first_len = Len(fasta.recs[1].seq)
                /\ parse_ret.got_len = Len(fasta.recs[parse_ret.record_idx + 1].seq)
    /\ \A i \in 1..Len(task) : task[i] # "PanicHamming"

C9_Witness ==
    /\ parse_ret.tag = "Ok"
    /\ Len(records) >= 2
    /\ Len(records[1].seq) > 0
    /\ Len(db_records) >= 2
    /\ \E i \in 1..Len(task) : task[i] = "done"

====
